---- MODULE Spec2Model ----
(***************************************************************************)
(* Rolling-window Value-at-Risk forecasting (Historical, Monte-Carlo,     *)
(* VIX regression) and the Kupiec unconditional-coverage backtest.        *)
(*                                                                         *)
(* Numbers.  Python floats are modelled in fixed point:                    *)
(*   - returns, VIX and realized volatility are integers (input units);    *)
(*   - confidence levels are integers in per-mille (0.95 is 950);          *)
(*   - VaR values are integers in 1/1000 of an input unit;                 *)
(*   - NaN is a distinguished value that compares FALSE with everything.   *)
(* Timestamps are the positions 0..n-1 of the rows of the input table      *)
(* (the table is sorted by date, dates strictly increasing).               *)
(***************************************************************************)
EXTENDS Integers, Sequences, FiniteSets, TLC

VARIABLES
    pc,                 \* position of the running entry point
    model,              \* which entry point is being run
    data,               \* the Feature table: a sequence of rows
    columns,            \* the column names the Feature table has
    rolling_windows,    \* configuration: sequence of [label, size]
    confidence_levels,  \* configuration: sequence of per-mille levels
    wi,                 \* number of windows whose loop has completed
    results,            \* label-ordered sequence of [label, table]
    skip_report,        \* per completed window, the skip count it printed
    error,              \* "" or the kind of the exception that escaped
    kpos,               \* Kupiec batch: number of combinations visited
    kupiec_rows,        \* Kupiec batch: the result rows collected so far
    kupiec_log,         \* Kupiec batch: the failures it printed
    stage,              \* main: index of the stage to run next
    completed,          \* main: the stages that ran to their end, in order
    exit_code,          \* main: its return value (-1: not returned yet)
    raising,            \* main: the stages that raise on this run's inputs
    written,            \* main: the result files on disk
    btc,                \* loader: the BTC workbook [exists, columns, rows]
    vix,                \* loader: the VIX workbook [exists, columns, rows]
    features,           \* loader: the Feature table prepared
    quality,            \* loader: the issues validate_data_quality returned
    all_kupiec,         \* summary: the combined Kupiec table
    comparison,         \* summary: the table compare_models returned
    rankings            \* summary: the table rank_models_by_coverage returned

vars == <<pc, model, data, columns, rolling_windows, confidence_levels,
          wi, results, skip_report, error, kpos, kupiec_rows, kupiec_log,
          stage, completed, exit_code, raising, written,
          btc, vix, features, quality, all_kupiec, comparison, rankings>>

kvars == <<kpos, kupiec_rows, kupiec_log>>

\* the state of one model call
cvars == <<model, data, columns, rolling_windows, confidence_levels,
           wi, results, skip_report>>

mainvars == <<stage, completed, exit_code, raising, written>>

loadvars == <<btc, vix, features, quality>>

sumvars == <<all_kupiec, comparison, rankings>>

\* everything outside the model calls and the Kupiec batch
ovars == <<mainvars, loadvars, sumvars>>

-----------------------------------------------------------------------------
(* Bounds of the model *)

MaxLen == 4

-----------------------------------------------------------------------------
(* Floating point values *)

NaN == -1000000

IsNaN(v) == v = NaN

\* IEEE comparisons: any comparison with NaN is false
Lt(a, b) == ~IsNaN(a) /\ ~IsNaN(b) /\ a < b
Ge(a, b) == ~IsNaN(a) /\ ~IsNaN(b) /\ a >= b
Le(a, b) == ~IsNaN(a) /\ ~IsNaN(b) /\ a <= b
Gt(a, b) == ~IsNaN(a) /\ ~IsNaN(b) /\ a > b

Neg(a) == IF IsNaN(a) THEN NaN ELSE 0 - a

\* the slice run on to the end of the sequence: s[a:]
Slice_ToEnd(s, a, b) == IF a >= Len(s) THEN <<>> ELSE SubSeq(s, a + 1, Len(s))

\* python: s[a:b] for 0 <= a, on a 0-based sequence
Slice(s, a, b) == IF a >= b THEN <<>> ELSE SubSeq(s, a + 1, b)

AnyNaN(s) == \E k \in 1..Len(s) : IsNaN(s[k])

RECURSIVE SumSeq(_)
SumSeq(s) == IF s = <<>> THEN 0 ELSE Head(s) + SumSeq(Tail(s))

RECURSIVE Insert(_, _)
Insert(s, v) ==
    IF s = <<>> THEN <<v>>
    ELSE IF v <= Head(s) THEN <<v>> \o s
    ELSE <<Head(s)>> \o Insert(Tail(s), v)

RECURSIVE Sorted(_)
Sorted(s) == IF s = <<>> THEN <<>> ELSE Insert(Sorted(Tail(s)), Head(s))

\* f"VaR_{int(cl * 100)}": the column label of a confidence level
VarLabel(cl) == cl \div 10

Labels(cls) == {VarLabel(cls[k]) : k \in 1..Len(cls)}

\* the last level of the list that carries label l (a dict keeps the last write)
LevelOf(cls, l) ==
    cls[CHOOSE j \in 1..Len(cls) :
            VarLabel(cls[j]) = l
            /\ \A j2 \in (j + 1)..Len(cls) : VarLabel(cls[j2]) # l]

-----------------------------------------------------------------------------
(* np.quantile(a, 1 - cl), linear interpolation between order statistics;  *)
(* the result is in 1/1000 of the unit of a.  q outside [0,1] raises.      *)

QuantileValid(cl) == 0 <= 1000 - cl /\ 1000 - cl <= 1000

\* the interpolation stepping away from the upper neighbour
Quantile_StepDown(a, cl) ==
    IF AnyNaN(a) \/ a = <<>> THEN NaN
    ELSE LET srt == Sorted(a)
             h   == (Len(a) - 1) * (1000 - cl)
             lo  == h \div 1000
             rem == h % 1000
         IN  IF rem = 0 THEN 1000 * srt[lo + 1]
             ELSE 1000 * srt[lo + 1] - rem * (srt[lo + 2] - srt[lo + 1])

Quantile(a, cl) ==
    IF AnyNaN(a) \/ a = <<>> THEN NaN
    ELSE LET srt == Sorted(a)
             h   == (Len(a) - 1) * (1000 - cl)
             lo  == h \div 1000
             rem == h % 1000
         IN  IF rem = 0 THEN 1000 * srt[lo + 1]
             ELSE 1000 * srt[lo + 1] + rem * (srt[lo + 2] - srt[lo + 1])

-----------------------------------------------------------------------------
(* Outcome of the estimator at one time point *)

Skip == [kind |-> "skip"]
Raise(what) == [kind |-> "raise", what |-> what]
Point(vals) == [kind |-> "ok", vals |-> vals]

Column(tbl, name) == [k \in 1..Len(tbl) |-> tbl[k][name]]

EmptyRun(cls) ==
    [raised |-> "", skipped |-> 0, reported |-> FALSE,
     table |-> [columns |-> Labels(cls), rows |-> <<>>]]

-----------------------------------------------------------------------------
(* Shared rolling-window engine *)

\* the engine with its loop started one position late
compute_var_rolling_window_LateStart(n, window_size, cls, calculate_var_point) ==
    LET start == window_size + 1
        loop[i \in start..(IF n > start THEN n ELSE start)] ==
            IF i = start THEN EmptyRun(cls)
            ELSE LET acc == loop[i - 1]
                     var_point == calculate_var_point[i - 1]
                 IN  IF acc.raised # "" THEN acc
                     ELSE IF var_point.kind = "raise"
                          THEN [acc EXCEPT !.raised = var_point.what]
                     ELSE IF var_point.kind = "skip"
                          THEN [acc EXCEPT !.skipped = @ + 1]
                     ELSE [acc EXCEPT !.table.rows =
                               Append(@, [date |-> i - 1, vals |-> var_point.vals])]
        final == loop[IF n > start THEN n ELSE start]
    IN  [final EXCEPT !.reported = (final.raised = "" /\ final.skipped > 0)]

\* calculate_var_point is the estimator callback, as the function from a
\* time point i to its outcome for the confidence levels cls
compute_var_rolling_window(n, window_size, cls, calculate_var_point) ==
    LET start == window_size
        loop[i \in start..(IF n > start THEN n ELSE start)] ==
            IF i = start THEN EmptyRun(cls)
            ELSE LET acc == loop[i - 1]
                     var_point == calculate_var_point[i - 1]
                 IN  IF acc.raised # "" THEN acc
                     ELSE IF var_point.kind = "raise"
                          THEN [acc EXCEPT !.raised = var_point.what]
                     ELSE IF var_point.kind = "skip"
                          THEN [acc EXCEPT !.skipped = @ + 1]
                     ELSE [acc EXCEPT !.table.rows =
                               Append(@, [date |-> i - 1, vals |-> var_point.vals])]
        final == loop[IF n > start THEN n ELSE start]
    IN  [final EXCEPT !.reported = (final.raised = "" /\ final.skipped > 0)]

-----------------------------------------------------------------------------
(* Input validation shared by the models *)

\* the validation with a window as long as the data rejected as well
validate_model_inputs_RejectFullLength(d, windows, cls) ==
    IF Len(d) = 0 THEN "ValueError"
    ELSE IF \E k \in 1..Len(windows) :
                windows[k].size <= 0 \/ windows[k].size >= Len(d)
         THEN "ValueError"
    ELSE IF \E k \in 1..Len(cls) : ~(0 < cls[k] /\ cls[k] < 1000)
         THEN "ValueError"
    ELSE ""

validate_model_inputs(d, windows, cls) ==
    IF Len(d) = 0 THEN "ValueError"
    ELSE IF \E k \in 1..Len(windows) :
                windows[k].size <= 0 \/ windows[k].size > Len(d)
         THEN "ValueError"
    ELSE IF \E k \in 1..Len(cls) : ~(0 < cls[k] /\ cls[k] < 1000)
         THEN "ValueError"
    ELSE ""

validate_required_columns(cols, required) ==
    IF required \subseteq cols THEN "" ELSE "ValueError"

-----------------------------------------------------------------------------
(* Historical model *)

Hist_calculate_var_at_point(returns, window_size, i, cls) ==
    LET returns_window == Slice(returns, i - window_size, i)
    IN  IF AnyNaN(returns_window) THEN Skip
        ELSE IF \E k \in 1..Len(cls) : ~QuantileValid(cls[k]) THEN Raise("ValueError")
        ELSE Point([l \in Labels(cls) |->
                       Neg(Quantile(returns_window, LevelOf(cls, l)))])

Hist_compute_var_for_window(d, window_size, cls) ==
    LET returns == Column(d, "Returns")
        calc == [i \in window_size..(Len(d) - 1) |->
                    Hist_calculate_var_at_point(returns, window_size, i, cls)]
    IN  compute_var_rolling_window(Len(d), window_size, cls, calc)

-----------------------------------------------------------------------------
(* Monte-Carlo model: shared numerics *)

MaxSims == 5

RANDOM_SEED == 42

\* np.random.default_rng(seed).standard_normal(count): a fixed generator,
\* re-seeded at each call, yields the same draw sequence (in sigma units)
RECURSIVE RngStates(_, _)
RngStates(s, count) ==
    IF count = 0 THEN <<>>
    ELSE LET nxt == (s * 75 + 74) % 65537
         IN  <<nxt>> \o RngStates(nxt, count - 1)

standard_normal(seed, count) ==
    LET st == RngStates(seed, count)
    IN  [k \in 1..count |-> (st[k] % 7) - 3]

RECURSIVE ISqrtBetween(_, _, _)
ISqrtBetween(v, lo, hi) ==
    IF lo >= hi THEN lo
    ELSE LET mid == (lo + hi + 1) \div 2
         IN  IF mid * mid <= v THEN ISqrtBetween(v, mid, hi)
             ELSE ISqrtBetween(v, lo, mid - 1)

ISqrt(v) == ISqrtBetween(v, 0, 46340)

\* float(np.mean(window)), in 1/1000 of an input unit
Mean(window) ==
    IF window = <<>> \/ AnyNaN(window) THEN NaN
    ELSE (1000 * SumSeq(window)) \div Len(window)

\* float(np.std(window, ddof=1)), in 1/1000 of an input unit
Std(window) ==
    IF Len(window) <= 1 \/ AnyNaN(window) THEN NaN
    ELSE LET n  == Len(window)
             s1 == SumSeq(window)
             s2 == SumSeq([k \in 1..n |-> window[k] * window[k]])
         IN  ISqrt((1000000 * (n * s2 - s1 * s1)) \div (n * (n - 1)))

\* the simulation without the degenerate case set apart
Sims_NoDegenerate(mu, sigma, z) ==
    [k \in 1..Len(z) |-> IF IsNaN(mu) \/ IsNaN(sigma) THEN NaN ELSE mu + sigma * z[k]]

\* the simulated returns, in 1/1000 of an input unit
Sims(mu, sigma, z) ==
    IF IsNaN(sigma) \/ sigma = 0
    THEN [k \in 1..Len(z) |-> mu]
    ELSE [k \in 1..Len(z) |-> IF IsNaN(mu) THEN NaN ELSE mu + sigma * z[k]]

\* -np.quantile(sims, 1 - cl), brought back to 1/1000 of an input unit
SimVaR(sims, cl) ==
    LET q == Quantile(sims, cl)
    IN  IF IsNaN(q) THEN NaN ELSE 0 - (q \div 1000)

\* one generator shared by all windows: the draws go on from where the
\* windows computed before left it
WindowDraws_SharedGenerator(windows_before) ==
    SubSeq(standard_normal(RANDOM_SEED, (windows_before + 1) * MaxSims),
           windows_before * MaxSims + 1, (windows_before + 1) * MaxSims)

\* rng = np.random.default_rng(config.RANDOM_SEED) and
\* z = rng.standard_normal(config.MONTE_CARLO_SIMS) inside the window function:
\* a generator of its own for every window, whatever was computed before
WindowDraws(windows_before) == standard_normal(RANDOM_SEED, MaxSims)

-----------------------------------------------------------------------------
(* Monte-Carlo model, src/models_monte_carlo.py (the one main.py runs) *)

MC_compute_var_for_window(returns, window_size, cls) ==
    LET z == WindowDraws(wi)
        n == Len(returns)
        start == window_size
        loop[i \in start..(IF n > start THEN n ELSE start)] ==
            IF i = start THEN EmptyRun(cls)
            ELSE LET acc    == loop[i - 1]
                     window == Slice(returns, (i - 1) - window_size, i - 1)
                     mu     == Mean(window)
                     sigma  == Std(window)
                     sims   == Sims(mu, sigma, z)
                 IN  IF acc.raised # "" THEN acc
                     ELSE IF \E k \in 1..Len(cls) : ~QuantileValid(cls[k])
                          THEN [acc EXCEPT !.raised = "ValueError"]
                     ELSE [acc EXCEPT !.table.rows =
                               Append(@, [date |-> i - 1,
                                          vals |-> [l \in Labels(cls) |->
                                                      SimVaR(sims, LevelOf(cls, l))]])]
    IN  loop[IF n > start THEN n ELSE start]

-----------------------------------------------------------------------------
(* Monte-Carlo model, src/models/monte_carlo.py (on the shared engine) *)

MCpkg_calculate_var_at_point(values, z, window_size, i, cls) ==
    LET window == Slice(values, i - window_size, i)
        mu     == Mean(window)
        sigma  == Std(window)
        sims   == Sims(mu, sigma, z)
    IN  IF AnyNaN(window) THEN Skip
        ELSE IF IsNaN(mu) THEN Skip
        ELSE IF \E k \in 1..Len(cls) : ~QuantileValid(cls[k]) THEN Raise("ValueError")
        ELSE Point([l \in Labels(cls) |-> SimVaR(sims, LevelOf(cls, l))])

MCpkg_compute_var_for_window(returns, window_size, cls) ==
    LET z == WindowDraws(wi)
        calc == [i \in window_size..(Len(returns) - 1) |->
                    MCpkg_calculate_var_at_point(returns, z, window_size, i, cls)]
    IN  compute_var_rolling_window(Len(returns), window_size, cls, calc)

-----------------------------------------------------------------------------
(* VIX regression model *)

TRADING_DAYS_PER_YEAR == 252

\* math.sqrt(config.TRADING_DAYS_PER_YEAR), in 1/1000
SqrtTradingDays == ISqrt(TRADING_DAYS_PER_YEAR * 1000000)

\* the table with an entry for the level 0.5 as well
Z_SCORES_WithMedian == (500 :> 0) @@ (950 :> 1645) @@ (990 :> 2326)

\* config.Z_SCORES, in 1/1000; a level without an entry is a KeyError
Z_SCORES == (950 :> 1645) @@ (990 :> 2326)

\* df.dropna(subset=["RealizedVol_21d", "VIX_decimal"]): the positions kept
RECURSIVE DropNaPositions(_, _)
DropNaPositions(d, k) ==
    IF k > Len(d) THEN <<>>
    ELSE IF IsNaN(d[k].RealizedVol_21d) \/ IsNaN(d[k].VIX_decimal)
         THEN DropNaPositions(d, k + 1)
    ELSE <<k - 1>> \o DropNaPositions(d, k + 1)

\* np.polyfit(x_win, y_win, 1) evaluated at x_at: the prediction as the exact
\* fraction num / den (den > 0).  When all x of the window are equal the
\* least-squares problem is rank deficient and the minimum-norm solution
\* evaluated at that same x is the mean of y.
PredictNum(x_win, y_win, x_at) ==
    LET n   == Len(x_win)
        sx  == SumSeq(x_win)
        sy  == SumSeq(y_win)
        sxx == n * SumSeq([k \in 1..n |-> x_win[k] * x_win[k]]) - sx * sx
        sxy == n * SumSeq([k \in 1..n |-> x_win[k] * y_win[k]]) - sx * sy
    IN  IF sxx = 0 THEN sy ELSE sy * sxx + sxy * (n * x_at - sx)

PredictDen(x_win) ==
    LET n   == Len(x_win)
        sx  == SumSeq(x_win)
        sxx == n * SumSeq([k \in 1..n |-> x_win[k] * x_win[k]]) - sx * sx
    IN  IF sxx = 0 THEN n ELSE n * sxx

\* the prediction with a volatility of exactly zero let through
PredictionInvalid_NegativeOnly(num, den) == num < 0

\* not np.isfinite(sigma_ann) or sigma_ann <= 0, for sigma_ann = num / den
PredictionInvalid(num, den) == den = 0 \/ num <= 0

VIX_compute_var_for_window(d, window_size, cls) ==
    LET keep  == DropNaPositions(d, 1)
        n     == Len(keep)
        x     == [k \in 1..n |-> d[keep[k] + 1].VIX_decimal]
        y     == [k \in 1..n |-> d[keep[k] + 1].RealizedVol_21d]
        start == window_size
        loop[i \in start..(IF n > start THEN n ELSE start)] ==
            IF i = start THEN EmptyRun(cls)
            ELSE LET acc   == loop[i - 1]
                     x_win == Slice(x, (i - 1) - window_size, i - 1)
                     y_win == Slice(y, (i - 1) - window_size, i - 1)
                     num   == PredictNum(x_win, y_win, x[i - 1])
                     den   == PredictDen(x_win)
                     sigma_ann   == (1000 * num) \div den
                     sigma_daily == (sigma_ann * 1000) \div SqrtTradingDays
                 IN  IF acc.raised # "" THEN acc
                     ELSE IF AnyNaN(x_win) \/ AnyNaN(y_win)
                          THEN [acc EXCEPT !.skipped = @ + 1]
                     ELSE IF PredictionInvalid(num, den)
                          THEN [acc EXCEPT !.skipped = @ + 1]
                     ELSE IF \E k \in 1..Len(cls) : cls[k] \notin DOMAIN Z_SCORES
                          THEN [acc EXCEPT !.raised = "KeyError"]
                     ELSE [acc EXCEPT !.table.rows =
                               Append(@, [date |-> keep[i],
                                          vals |-> [l \in Labels(cls) |->
                                              (Z_SCORES[LevelOf(cls, l)] * sigma_daily)
                                                  \div 1000]])]
        final == loop[IF n > start THEN n ELSE start]
    IN  [final EXCEPT !.reported = (final.raised = "" /\ final.skipped > 0)]

-----------------------------------------------------------------------------
(* Kupiec test: numerics.  Logarithms, the statistic and probabilities are  *)
(* in fixed point with unit 1/FP.                                           *)

FP == 10 ^ 5

Inf == 2000000000

\* config.SIGNIFICANCE_LEVEL = 0.05, in 1/FP
SIGNIFICANCE_LEVEL == 5000

RECURSIVE Log2Floor(_)
Log2Floor(k) == IF k < 2 THEN 0 ELSE 1 + Log2Floor(k \div 2)

\* ln(k) for an integer k >= 1: k = 2^m * r with r in [1,2),
\* ln(r) = 2 atanh((r-1)/(r+1)) by its series
LnInt(k) ==
    LET ln2 == 69315
        m   == Log2Floor(k)
        b   == 2 ^ m
        y   == (FP * (k - b)) \div (k + b)
        y2  == (y * y) \div FP
        y3  == (y2 * y) \div FP
        y5  == (y3 * y2) \div FP
        y7  == (y5 * y2) \div FP
    IN  m * ln2 + 2 * (y + (y3 \div 3) + (y5 \div 5) + (y7 \div 7))

\* np.log(a / b) for integers a, b >= 1
Ln(a, b) == LnInt(a) - LnInt(b)

\* scipy.stats.chi2.cdf(lr, df=1): piecewise linear through the tabulated
\* quantiles of the chi-squared distribution with one degree of freedom
Chi2Knots ==
    << <<0, 100000>>, <<1579, 90000>>, <<6418, 80000>>, <<14847, 70000>>,
       <<27500, 60000>>, <<45494, 50000>>, <<70833, 40000>>, <<107419, 30000>>,
       <<164237, 20000>>, <<270554, 10000>>, <<384146, 5000>>, <<502389, 2500>>,
       <<663490, 1000>>, <<787944, 500>>, <<1082757, 100>>, <<3000000, 0>> >>

Chi2Cdf(lr) ==
    IF lr <= 0 THEN 0
    ELSE IF lr >= Chi2Knots[Len(Chi2Knots)][1] THEN FP
    ELSE LET k  == CHOOSE j \in 1..(Len(Chi2Knots) - 1) :
                       Chi2Knots[j][1] <= lr /\ lr < Chi2Knots[j + 1][1]
             a  == Chi2Knots[k]
             b  == Chi2Knots[k + 1]
             sf == a[2] - ((a[2] - b[2]) * (lr - a[1])) \div (b[1] - a[1])
         IN  FP - sf

-----------------------------------------------------------------------------
(* Kupiec test *)

\* the value a table holds in column col at date d; NaN when it has no such row
ValueAt(tbl, col, d) ==
    IF \E k \in 1..Len(tbl.rows) : tbl.rows[k].date = d
    THEN LET k == CHOOSE j \in 1..Len(tbl.rows) : tbl.rows[j].date = d
         IN  tbl.rows[k].vals[col]
    ELSE NaN

ReturnAt(d, t) == IF t < Len(d) THEN d[t + 1].Returns ELSE NaN

MaxDate(d, tbl) ==
    LET ds == {Len(d) - 1} \cup {tbl.rows[k].date : k \in 1..Len(tbl.rows)}
    IN  CHOOSE m \in ds : \A e \in ds : e <= m

\* pd.DataFrame({"Returns": returns_series, "VaR": var_series}).dropna():
\* the union of the two indexes in date order, without the rows that miss a value
RECURSIVE MergeDropNa(_, _, _, _, _)
MergeDropNa(d, tbl, col, t, last) ==
    IF t > last THEN <<>>
    ELSE LET r == ReturnAt(d, t)
             v == ValueAt(tbl, col, t)
         IN  IF IsNaN(r) \/ IsNaN(v)
             THEN MergeDropNa(d, tbl, col, t + 1, last)
             ELSE <<[date |-> t, Returns |-> r, VaR |-> v]>>
                      \o MergeDropNa(d, tbl, col, t + 1, last)

\* the comparison with the boundary return = -VaR counted as a violation
IsViolation_NonStrict(r, v) == Le(1000 * r, Neg(v))

\* df["Returns"] < -df["VaR"]  (returns are in input units, VaR in 1/1000)
IsViolation(r, v) == Lt(1000 * r, Neg(v))

\* the statistic with only the no-violation case handled apart, and the
\* all-violations case computed with 0 * log(0) taken as 0
KupiecStatistic_ZeroOnly(x, n, cl) ==
    IF x = 0
    THEN [LR_uc |-> Inf, p_value |-> 0]
    ELSE LET logL0 == (n - x) * Ln(cl, 1000) + x * Ln(1000 - cl, 1000)
             logL1 == (IF x = n THEN 0 ELSE (n - x) * Ln(n - x, n))
                          + x * Ln(x, n)
             lr    == (0 - 2) * (logL0 - logL1)
         IN  [LR_uc |-> lr, p_value |-> FP - Chi2Cdf(lr)]

\* LR_uc and p_value for x violations among n observations at level cl
KupiecStatistic(x, n, cl) ==
    IF x = 0 \/ x = n
    THEN [LR_uc |-> Inf, p_value |-> 0]
    ELSE LET logL0 == (n - x) * Ln(cl, 1000) + x * Ln(1000 - cl, 1000)
             logL1 == (n - x) * Ln(n - x, n) + x * Ln(x, n)
             lr    == (0 - 2) * (logL0 - logL1)
         IN  [LR_uc |-> lr, p_value |-> FP - Chi2Cdf(lr)]

\* the decision with a p_value at the significance level rejecting
Reject_NonStrict(p_value) == p_value <= SIGNIFICANCE_LEVEL

Reject(p_value) == p_value < SIGNIFICANCE_LEVEL

\* the column check left out
ReturnsColumnMissing_Unchecked(cols) == FALSE

\* isinstance(returns, pd.DataFrame) and "Returns" not in returns.columns
ReturnsColumnMissing(cols) == "Returns" \notin cols

run_kupiec_test(d, cols, var_forecasts, cl, model_name, window_label) ==
    LET var_col == VarLabel(cl)
    IN  IF ReturnsColumnMissing(cols) THEN Raise("ValueError: no Returns column")
        ELSE IF var_col \notin var_forecasts.columns
             THEN Raise("ValueError: no VaR column")
        ELSE LET df == MergeDropNa(d, var_forecasts, var_col, 0,
                                   MaxDate(d, var_forecasts))
                 x  == Cardinality({k \in 1..Len(df) :
                                       IsViolation(df[k].Returns, df[k].VaR)})
                 n  == Len(df)
                 st == KupiecStatistic(x, n, cl)
             IN  IF df = <<>> THEN Raise("ValueError: no valid data")
                 ELSE IF n = 0 THEN Raise("ValueError: no observations")
                 ELSE [kind |-> "ok",
                       row  |-> [Model |-> model_name,
                                 RollingWindow |-> window_label,
                                 ConfidenceLevel |-> cl,
                                 N |-> n,
                                 Violations |-> x,
                                 ExpectedViolations |-> n * (1000 - cl),
                                 ViolationRate |-> IF n > 0 THEN (FP * x) \div n
                                                   ELSE 0,
                                 LR_uc |-> st.LR_uc,
                                 p_value |-> st.p_value,
                                 Reject_5pct |-> Reject(st.p_value)]]

-----------------------------------------------------------------------------
(* Inputs *)

ReturnValues == {NaN, -3, 2}

Row(r, x, y) == [Returns |-> r, VIX_decimal |-> x, RealizedVol_21d |-> y]

ReturnRows == {Row(r, 1, 30) : r \in ReturnValues}

\* VIX is quoted positive; realized volatility is a standard deviation (>= 0)
VixRows == {Row(0, NaN, 30), Row(0, 1, 30), Row(0, 2, 0), Row(0, 3, 0)}

SeqsUpTo(S, n) == UNION {[1..k -> S] : k \in 0..n}

Window(label, size) == [label |-> label, size |-> size]

WindowConfigs ==
    {<<Window("a", s)>> : s \in 0..(MaxLen + 1)}
    \cup {<<Window("a", s), Window("b", t)>> : s \in 1..2, t \in {0, 2, MaxLen + 1}}

LevelConfigs == {<<950, 990>>, <<990>>, <<500, 950>>, <<950, 0>>, <<1200, 990>>}

AllColumns == {"Returns", "VIX_decimal", "RealizedVol_21d"}

-----------------------------------------------------------------------------
(* The entry points.  Each validates, then runs one window after the other  *)
(* (dict order), then returns the label -> table dictionary.  An exception  *)
(* leaves the call with no return value.                                    *)

Invoke(m, e) ==
    /\ pc = "call" /\ model = m
    /\ error' = e
    /\ pc' = IF e # "" THEN "raised" ELSE "windows"
    /\ UNCHANGED <<model, data, columns, rolling_windows, confidence_levels,
                   wi, results, skip_report, kvars, ovars>>

\* dropna(subset=...) applied to the caller's frame itself
TableLeft_DropNaInPlace(m, d) ==
    IF m = "VIXRegression"
    THEN LET keep == DropNaPositions(d, 1)
         IN  [k \in 1..Len(keep) |-> d[keep[k] + 1]]
    ELSE d

\* the caller's table after a window was computed: every model works on a
\* copy (data.copy(), data["Returns"].values read only, dropna(...).copy())
TableLeft(m, d) == d

WindowStep(m, run) ==
    /\ IF run.raised # ""
       THEN /\ pc' = "raised" /\ error' = run.raised
            /\ UNCHANGED <<wi, results, skip_report>>
       ELSE /\ results' = Append(results, [label |-> rolling_windows[wi + 1].label,
                                           table |-> run.table])
            /\ skip_report' = Append(skip_report, run.skipped)
            /\ wi' = wi + 1
            /\ UNCHANGED <<pc, error>>
    /\ data' = TableLeft(m, data)
    /\ UNCHANGED <<model, columns, rolling_windows, confidence_levels,
                   kvars, ovars>>

Return(m) ==
    /\ pc = "windows" /\ model = m
    /\ wi = Len(rolling_windows)
    /\ pc' = "returned"
    /\ UNCHANGED <<model, data, columns, rolling_windows, confidence_levels,
                   wi, results, skip_report, error, kvars, ovars>>

\* calculate_historical_var
HistInvoke ==
    LET e1 == validate_model_inputs(data, rolling_windows, confidence_levels)
        e2 == validate_required_columns(columns, {"Returns"})
    IN  Invoke("Historical", IF e1 # "" THEN e1 ELSE e2)

HistWindow ==
    /\ pc = "windows" /\ model = "Historical"
    /\ wi < Len(rolling_windows)
    /\ WindowStep("Historical",
           Hist_compute_var_for_window(data, rolling_windows[wi + 1].size,
                                       confidence_levels))

HistReturn == Return("Historical")

\* calculate_monte_carlo_var of src/models_monte_carlo.py
MC_validate(cols) == IF "Returns" \notin cols THEN "ValueError" ELSE ""

MCInvoke == Invoke("MonteCarlo", MC_validate(columns))

MCWindow ==
    /\ pc = "windows" /\ model = "MonteCarlo"
    /\ wi < Len(rolling_windows)
    /\ WindowStep("MonteCarlo",
           MC_compute_var_for_window(Column(data, "Returns"),
                                     rolling_windows[wi + 1].size,
                                     confidence_levels))

MCReturn == Return("MonteCarlo")

\* calculate_monte_carlo_var of src/models/monte_carlo.py
MCpkgInvoke ==
    LET e1 == validate_model_inputs(data, rolling_windows, confidence_levels)
        e2 == validate_required_columns(columns, {"Returns"})
    IN  Invoke("MonteCarloPkg", IF e1 # "" THEN e1 ELSE e2)

MCpkgWindow ==
    /\ pc = "windows" /\ model = "MonteCarloPkg"
    /\ wi < Len(rolling_windows)
    /\ WindowStep("MonteCarloPkg",
           MCpkg_compute_var_for_window(Column(data, "Returns"),
                                        rolling_windows[wi + 1].size,
                                        confidence_levels))

MCpkgReturn == Return("MonteCarloPkg")

\* calculate_vix_regression_var
VIX_validate(d, cols, windows, cls) ==
    IF Len(d) = 0 THEN "ValueError"
    ELSE IF \E k \in 1..Len(windows) :
                windows[k].size <= 0 \/ windows[k].size > Len(d)
         THEN "ValueError"
    ELSE IF \E k \in 1..Len(cls) : ~(0 < cls[k] /\ cls[k] < 1000)
         THEN "ValueError"
    ELSE IF ~({"RealizedVol_21d", "VIX_decimal"} \subseteq cols)
         THEN "ValueError"
    ELSE ""

VIXInvoke ==
    Invoke("VIXRegression",
           VIX_validate(data, columns, rolling_windows, confidence_levels))

VIXWindow ==
    /\ pc = "windows" /\ model = "VIXRegression"
    /\ wi < Len(rolling_windows)
    /\ WindowStep("VIXRegression",
           VIX_compute_var_for_window(data, rolling_windows[wi + 1].size,
                                      confidence_levels))

VIXReturn == Return("VIXRegression")

-----------------------------------------------------------------------------
(* run_kupiec_tests_for_model: one step per (window, confidence level),     *)
(* windows outermost; a failing test is printed and left out.               *)

\* the loops nested the other way: confidence levels outermost
KupiecCombo_LevelMajor(k, nwindows, nlevels) ==
    [w |-> (k % nwindows) + 1, c |-> (k \div nwindows) + 1]

\* the k-th combination (k = 0, 1, ...) of the nested loops: windows outermost
KupiecCombo(k, nwindows, nlevels) ==
    [w |-> (k \div nlevels) + 1, c |-> (k % nlevels) + 1]

KupiecStep ==
    /\ pc = "kupiec"
    /\ kpos < Len(results) * Len(confidence_levels)
    /\ LET at  == KupiecCombo(kpos, Len(results), Len(confidence_levels))
           w   == results[at.w]
           cl  == confidence_levels[at.c]
           res == run_kupiec_test(data, columns, w.table, cl, model, w.label)
       IN  IF res.kind = "ok"
           THEN /\ kupiec_rows' = Append(kupiec_rows, res.row)
                /\ UNCHANGED kupiec_log
           ELSE /\ kupiec_log' = Append(kupiec_log,
                                        [window |-> w.label, cl |-> cl,
                                         what |-> res.what])
                /\ UNCHANGED kupiec_rows
    /\ kpos' = kpos + 1
    /\ UNCHANGED <<pc, model, data, columns, rolling_windows, confidence_levels,
                   wi, results, skip_report, error, ovars>>

KupiecReturn ==
    /\ pc = "kupiec"
    /\ kpos = Len(results) * Len(confidence_levels)
    /\ pc' = "kupiec_returned"
    /\ UNCHANGED <<model, data, columns, rolling_windows, confidence_levels,
                   wi, results, skip_report, error, kvars, ovars>>

-----------------------------------------------------------------------------

\* the parts of the state a run does not use stay at these values
IdleMain ==
    /\ stage = 0 /\ completed = <<>> /\ exit_code = -1
    /\ raising = {} /\ written = <<>>

IdleLoader ==
    /\ btc = <<>> /\ vix = <<>> /\ features = <<>> /\ quality = <<>>

IdleSummary ==
    /\ all_kupiec = <<>> /\ comparison = <<>> /\ rankings = <<>>

IdleCall ==
    /\ model = "" /\ data = <<>> /\ columns = {}
    /\ rolling_windows = <<>> /\ confidence_levels = <<>>
    /\ wi = 0 /\ results = <<>> /\ skip_report = <<>>

IdleKupiec ==
    /\ kpos = 0 /\ kupiec_rows = <<>> /\ kupiec_log = <<>>

InitCall(m, rows, cols) ==
    /\ pc = "call"
    /\ model = m
    /\ data \in SeqsUpTo(rows, MaxLen)
    /\ columns \in cols
    /\ rolling_windows \in WindowConfigs
    /\ confidence_levels \in LevelConfigs
    /\ wi = 0
    /\ results = <<>>
    /\ skip_report = <<>>
    /\ error = ""
    /\ kpos = 0
    /\ kupiec_rows = <<>>
    /\ kupiec_log = <<>>
    /\ IdleMain /\ IdleLoader /\ IdleSummary

InitModels ==
    \/ InitCall("Historical", ReturnRows, {AllColumns, AllColumns \ {"Returns"}})
    \/ InitCall("MonteCarlo", ReturnRows, {AllColumns, AllColumns \ {"Returns"}})
    \/ InitCall("MonteCarloPkg", ReturnRows, {AllColumns, AllColumns \ {"Returns"}})
    \/ InitCall("VIXRegression", VixRows, {AllColumns, AllColumns \ {"VIX_decimal"}})

NextModels ==
    \/ HistInvoke \/ HistWindow \/ HistReturn
    \/ MCInvoke \/ MCWindow \/ MCReturn
    \/ MCpkgInvoke \/ MCpkgWindow \/ MCpkgReturn
    \/ VIXInvoke \/ VIXWindow \/ VIXReturn

SpecModels == InitModels /\ [][NextModels]_vars

-----------------------------------------------------------------------------
(* The three models of main, one after the other on the same table, in any  *)
(* order.  features keeps the table as it was prepared, completed the       *)
(* models that have returned.                                               *)

MainModels == {"Historical", "MonteCarlo", "VIXRegression"}

\* main hands the same data object to the next model
NextModelCall ==
    /\ pc \in {"idle", "returned"}
    /\ \E m \in MainModels \ ({completed[k] : k \in 1..Len(completed)} \cup {model}) :
           model' = m
    /\ completed' = IF pc = "returned" THEN Append(completed, model) ELSE completed
    /\ pc' = "call"
    /\ wi' = 0 /\ results' = <<>> /\ skip_report' = <<>>
    /\ UNCHANGED <<data, columns, rolling_windows, confidence_levels, error, kvars,
                   stage, exit_code, raising, written, loadvars, sumvars>>

SharedRows == {Row(NaN, 1, 30), Row(-3, NaN, 30), Row(2, 2, 0), Row(-3, 3, 10)}

InitShared ==
    /\ pc = "idle" /\ model = "" /\ error = ""
    /\ data \in SeqsUpTo(SharedRows, MaxLen)
    /\ features = data
    /\ columns = AllColumns
    /\ rolling_windows = <<Window("a", 1), Window("b", 2)>>
    /\ confidence_levels = <<950, 990>>
    /\ wi = 0 /\ results = <<>> /\ skip_report = <<>>
    /\ btc = <<>> /\ vix = <<>> /\ quality = <<>>
    /\ IdleKupiec /\ IdleMain /\ IdleSummary

NextShared ==
    \/ NextModelCall
    \/ HistInvoke \/ HistWindow \/ HistReturn
    \/ MCInvoke \/ MCWindow \/ MCReturn
    \/ VIXInvoke \/ VIXWindow \/ VIXReturn

SpecShared == InitShared /\ [][NextShared]_vars

-----------------------------------------------------------------------------
(* The Kupiec batch on its own inputs *)

MaxObs == 3

KReturnRows == {Row(r, 1, 30) : r \in {NaN, -3}}

\* per date: no row (-1), or a row whose VaR_95 is v (VaR_99 is v + 500)
KCells == {-1, NaN, 1000, 3000}

KRowsOf(cells) ==
    LET keep[t \in 0..Len(cells)] ==
            IF t = 0 THEN <<>>
            ELSE IF cells[t] = -1 THEN keep[t - 1]
            ELSE Append(keep[t - 1],
                        [date |-> t - 1,
                         vals |-> (95 :> cells[t]) @@
                                  (99 :> IF IsNaN(cells[t]) THEN NaN
                                         ELSE cells[t] + 500)])
    IN  keep[Len(cells)]

KTables ==
    {[columns |-> {95, 99}, rows |-> KRowsOf(c)] : c \in [1..MaxObs -> KCells]}

KOnly99 ==
    [columns |-> {99},
     rows |-> <<[date |-> 0, vals |-> (99 :> 1000)]>>]

KEmpty == [columns |-> {95, 99}, rows |-> <<>>]

KOneWindow == {<<[label |-> "a", table |-> t]>> : t \in KTables \cup {KOnly99}}

KTwoWindows ==
    {<<[label |-> "a", table |-> t], [label |-> "b", table |-> KOnly99]>> :
         t \in KTables}
    \cup {<<[label |-> "a", table |-> KOnly99], [label |-> "b", table |-> t]>> :
              t \in KTables}

InitKupiec ==
    /\ pc = "kupiec"
    /\ model = "Historical"
    /\ data \in SeqsUpTo(KReturnRows, MaxObs)
    /\ \/ /\ columns = AllColumns
          /\ confidence_levels = <<950, 990>>
          /\ results \in KOneWindow \cup KTwoWindows
       \/ /\ columns = AllColumns
          /\ confidence_levels \in {<<990, 950>>, <<990>>}
          /\ results \in KOneWindow
       \/ /\ columns = AllColumns \ {"Returns"}
          /\ confidence_levels = <<950, 990>>
          /\ results \in {<<[label |-> "a", table |-> KOnly99]>>,
                          <<[label |-> "a", table |-> KEmpty]>>}
    /\ rolling_windows = <<>>
    /\ wi = 0
    /\ skip_report = <<>>
    /\ error = ""
    /\ kpos = 0
    /\ kupiec_rows = <<>>
    /\ kupiec_log = <<>>
    /\ IdleMain /\ IdleLoader /\ IdleSummary

NextKupiec == KupiecStep \/ KupiecReturn

SpecKupiec == InitKupiec /\ [][NextKupiec]_vars

-----------------------------------------------------------------------------
(* The Kupiec test on longer samples: n observations of which the first x   *)
(* are violations of a constant VaR of 1.                                   *)

MaxSample == 20

InitStatistic ==
    /\ pc = "kupiec"
    /\ model = "Historical"
    /\ \E n \in 1..MaxSample : \E x \in 0..n :
           /\ data = [t \in 1..n |-> Row(IF t <= x THEN -3 ELSE 2, 1, 30)]
           /\ results = <<[label |-> "a",
                           table |-> [columns |-> {50, 95, 99},
                                      rows |-> [t \in 1..n |->
                                          [date |-> t - 1,
                                           vals |-> [l \in {50, 95, 99} |-> 1000]]]]]>>
    /\ columns = AllColumns
    /\ confidence_levels \in {<<500>>, <<950>>, <<990>>}
    /\ rolling_windows = <<>>
    /\ wi = 0 /\ skip_report = <<>> /\ error = ""
    /\ IdleKupiec /\ IdleMain /\ IdleLoader /\ IdleSummary

SpecStatistic == InitStatistic /\ [][NextKupiec]_vars

-----------------------------------------------------------------------------
(* A model call followed by its Kupiec tests, as main runs them: the        *)
(* Historical model on a table of returns, then run_kupiec_tests_for_model  *)
(* on that table and the dictionary the model returned.                     *)

ChainWindows ==
    {<<Window("a", s)>> : s \in 1..(MaxLen + 1)}
    \cup {<<Window("a", s), Window("b", t)>> :
              s \in 1..(MaxLen + 1), t \in 1..(MaxLen + 1)}

InitChain ==
    /\ pc = "call"
    /\ model = "Historical"
    /\ data \in SeqsUpTo(ReturnRows, MaxLen)
    /\ columns = AllColumns
    /\ rolling_windows \in ChainWindows
    /\ confidence_levels \in {<<950, 990>>, <<990>>}
    /\ wi = 0 /\ results = <<>> /\ skip_report = <<>> /\ error = ""
    /\ IdleKupiec /\ IdleMain /\ IdleLoader /\ IdleSummary

\* run_kupiec_tests_for_model(data, historical_results, "Historical")
TestModel ==
    /\ pc = "returned"
    /\ pc' = "kupiec"
    /\ UNCHANGED <<model, data, columns, rolling_windows, confidence_levels,
                   wi, results, skip_report, error, kvars, ovars>>

NextChain ==
    \/ HistInvoke \/ HistWindow \/ HistReturn
    \/ TestModel
    \/ KupiecStep \/ KupiecReturn

SpecChain == InitChain /\ [][NextChain]_vars

-----------------------------------------------------------------------------
(* main: the pipeline inside one try block.  What a stage computes is        *)
(* modelled by its own specification; here a stage either runs to its end   *)
(* or raises, as the run's inputs decide.                                    *)

MainStages ==
    <<"prepare_btc_vix_data",
      "calculate_historical_var", "calculate_monte_carlo_var",
      "calculate_vix_regression_var",
      "run_kupiec_tests_for_model Historical",
      "run_kupiec_tests_for_model MonteCarlo",
      "run_kupiec_tests_for_model VIXRegression",
      "combine_kupiec_results", "compare_models", "rank_models_by_coverage",
      "ensure_results_dir", "save_all_results", "print_summary">>

\* the files save_all_results writes, in the order of its to_csv calls
ResultFiles ==
    <<"BTC_Kupiec_Results_All.csv", "model_comparison.csv", "model_rankings.csv">>

\* the most stages that raise on one run's inputs
MaxRaising == 2

\* every exception swallowed, the pipeline going on
StageOutcome_Swallowed(s, raises) == "done"

\* a statement of the try block: control goes on, or to the except clause
StageOutcome(s, raises) == IF s \in raises THEN "raised" ELSE "done"

RunStage(k) ==
    /\ pc = "main" /\ stage = k - 1
    /\ IF StageOutcome(MainStages[k], raising) = "raised"
       THEN /\ pc' = "except" /\ error' = MainStages[k]
            /\ UNCHANGED <<stage, completed>>
       ELSE /\ stage' = k
            /\ completed' = Append(completed, MainStages[k])
            /\ UNCHANGED <<pc, error>>
    /\ UNCHANGED <<exit_code, raising>>
    /\ UNCHANGED <<cvars, kvars, loadvars, sumvars>>

MainPrepare == RunStage(1) /\ UNCHANGED written

MainForecast == (\E k \in 2..4 : RunStage(k)) /\ UNCHANGED written

MainKupiec == (\E k \in 5..7 : RunStage(k)) /\ UNCHANGED written

MainCombine == RunStage(8) /\ UNCHANGED written

MainCompare == RunStage(9) /\ UNCHANGED written

MainRank == RunStage(10) /\ UNCHANGED written

MainEnsureDir == RunStage(11) /\ UNCHANGED written

\* save_all_results: three to_csv calls; one that raises leaves the files
\* written before it
MainSave ==
    /\ RunStage(12)
    /\ IF StageOutcome(MainStages[12], raising) = "raised"
       THEN \E done \in 0..(Len(ResultFiles) - 1) :
                written' = SubSeq(ResultFiles, 1, done)
       ELSE written' = ResultFiles

MainSummary == RunStage(13) /\ UNCHANGED written

\* except Exception: return 1
MainExcept ==
    /\ pc = "except"
    /\ pc' = "exited" /\ exit_code' = 1
    /\ UNCHANGED <<error, stage, completed, raising, written>>
    /\ UNCHANGED <<cvars, kvars, loadvars, sumvars>>

\* return 0
MainReturn ==
    /\ pc = "main" /\ stage = Len(MainStages)
    /\ pc' = "exited" /\ exit_code' = 0
    /\ UNCHANGED <<error, stage, completed, raising, written>>
    /\ UNCHANGED <<cvars, kvars, loadvars, sumvars>>

InitMain ==
    /\ pc = "main" /\ error = ""
    /\ stage = 0 /\ completed = <<>> /\ exit_code = -1 /\ written = <<>>
    /\ raising \in {r \in SUBSET {MainStages[k] : k \in 1..Len(MainStages)} :
                        Cardinality(r) <= MaxRaising}
    /\ IdleCall /\ IdleKupiec /\ IdleLoader /\ IdleSummary

NextMain ==
    \/ MainPrepare \/ MainForecast \/ MainKupiec
    \/ MainCombine \/ MainCompare \/ MainRank
    \/ MainEnsureDir \/ MainSave \/ MainSummary
    \/ MainExcept \/ MainReturn

SpecMain == InitMain /\ [][NextMain]_vars

-----------------------------------------------------------------------------
(* Feature pipeline (data_loader).  Prices and index levels are whole       *)
(* numbers; Returns are in 1/FP, VIX_decimal in 1/1000.                     *)

VIX_LAG_DAYS == 1

REALIZED_VOL_WINDOW == 21

\* df.sort_values("Date").reset_index(drop=True): the default sort is not
\* stable, rows of one date come out in any order
SortByDate(rows) ==
    {[k \in 1..Len(rows) |-> rows[p[k]]] : p \in
        {q \in Permutations(1..Len(rows)) :
            \A k \in 1..(Len(rows) - 1) : rows[q[k]].Date <= rows[q[k + 1]].Date}}

\* _load_excel_with_validation up to the sort: "" or the DataLoadError
load_excel_with_validation(book, required_columns, data_name) ==
    IF ~book.exists THEN data_name \o " data file not found"
    ELSE IF ~(required_columns \subseteq book.columns)
         THEN data_name \o " data Missing required columns"
    ELSE ""

\* pd.merge(btc, vix, on="Date", how="inner"): left order, every matching pair
RECURSIVE merge(_, _)
merge(left, right) ==
    IF left = <<>> THEN <<>>
    ELSE LET OnDate(r) == r.Date = Head(left).Date
             hits == SelectSeq(right, OnDate)
         IN  [k \in 1..Len(hits) |->
                 [Date |-> Head(left).Date, btc_price |-> Head(left).value,
                  vix_level |-> hits[k].value]]
             \o merge(Tail(left), right)

\* np.log of a whole number, in 1/FP
NpLog(v) ==
    IF IsNaN(v) \/ v < 0 THEN NaN ELSE IF v = 0 THEN 0 - Inf ELSE LnInt(v)

\* float a - b
FloatSub(a, b) ==
    IF IsNaN(a) \/ IsNaN(b) THEN NaN
    ELSE IF a \in {Inf, 0 - Inf} THEN (IF a = b THEN NaN ELSE a)
    ELSE IF b \in {Inf, 0 - Inf} THEN 0 - b
    ELSE a - b

\* the first difference filled with 0 instead of left missing
Diff_ZeroFirst(col) ==
    [t \in 1..Len(col) |-> IF t = 1 THEN 0 ELSE FloatSub(col[t], col[t - 1])]

\* Series.diff(): NaN at the first position
Diff(col) ==
    [t \in 1..Len(col) |-> IF t = 1 THEN NaN ELSE FloatSub(col[t], col[t - 1])]

\* the lag dropped: the column itself
Shift_NoLag(col, periods) == col

\* Series.shift(periods): by row position, NaN at the first rows
Shift(col, periods) ==
    [t \in 1..Len(col) |-> IF t <= periods THEN NaN ELSE col[t - periods]]

\* prepare_btc_vix_data from the merge to the lagged column
BuildFeatures(b, v) ==
    LET Present(r) == ~IsNaN(r.btc_price) /\ ~IsNaN(r.vix_level)
        merged  == SelectSeq(merge(b, v), Present)
        returns == Diff([t \in 1..Len(merged) |-> NpLog(merged[t].btc_price)])
        with    == [t \in 1..Len(merged) |->
                       [Date |-> merged[t].Date, btc_price |-> merged[t].btc_price,
                        vix_level |-> merged[t].vix_level, Returns |-> returns[t]]]
        HasReturn(r) == ~IsNaN(r.Returns)
        d       == SelectSeq(with, HasReturn)
        n       == Len(d)
        vol     == [t \in 1..n |->
                       IF t < REALIZED_VOL_WINDOW THEN NaN
                       ELSE (Std([k \in 1..REALIZED_VOL_WINDOW |->
                                     d[t - REALIZED_VOL_WINDOW + k].Returns])
                             * SqrtTradingDays) \div 1000]
        dec     == [t \in 1..n |-> d[t].vix_level * 10]
        change  == Diff([t \in 1..n |-> d[t].vix_level])
        lag     == Shift(dec, VIX_LAG_DAYS)
    IN  [t \in 1..n |->
            [Date |-> d[t].Date, btc_price |-> d[t].btc_price,
             vix_level |-> d[t].vix_level, Returns |-> d[t].Returns,
             RealizedVol_21d |-> vol[t], VIX_decimal |-> dec[t],
             VIX_change |-> change[t], VIX_lag1 |-> lag[t]]]

\* abs(r) >= 0.5 counted as extreme
ExtremeReturn_NonStrict(r) == ~IsNaN(r) /\ (r >= FP \div 2 \/ 0 - r >= FP \div 2)

\* (data["Returns"].abs() > 0.5) & data["Returns"].notna()
ExtremeReturn(r) == ~IsNaN(r) /\ (r > FP \div 2 \/ 0 - r > FP \div 2)

\* Series.duplicated().sum(), (col < 0).sum(), the extreme returns
RECURSIVE CountIssues(_, _, _)
CountIssues(cols, rows, seen) ==
    IF rows = <<>> THEN [duplicates |-> 0, negative_vix |-> 0, extreme_returns |-> 0]
    ELSE LET r    == Head(rows)
             rest == CountIssues(cols, Tail(rows), seen \cup {r.Date})
         IN  [duplicates |-> rest.duplicates + (IF r.Date \in seen THEN 1 ELSE 0),
              negative_vix |-> rest.negative_vix +
                  (IF "VIX_decimal" \in cols /\ Lt(r.VIX_decimal, 0) THEN 1 ELSE 0),
              extreme_returns |-> rest.extreme_returns +
                  (IF "Returns" \in cols /\ ExtremeReturn(r.Returns) THEN 1 ELSE 0)]

validate_data_quality(cols, rows) ==
    LET issues == CountIssues(cols, rows, {})
    IN  [duplicates |-> issues.duplicates, negative_vix |-> issues.negative_vix,
         extreme_returns |-> issues.extreme_returns,
         total_issues |-> issues.duplicates + issues.negative_vix
                          + issues.extreme_returns]

FeatureColumns ==
    {"Date", "btc_price", "vix_level", "Returns", "RealizedVol_21d",
     "VIX_decimal", "VIX_change", "VIX_lag1"}

LoadWorkbook(book, required_columns, data_name, next) ==
    LET e == load_excel_with_validation(book, required_columns, data_name)
    IN  IF e # ""
        THEN /\ pc' = "raised" /\ error' = e /\ UNCHANGED <<btc, vix>>
        ELSE /\ pc' = next /\ UNCHANGED error
             /\ \E df \in SortByDate(book.rows) :
                    IF data_name = "BTC"
                    THEN btc' = [book EXCEPT !.rows = df] /\ UNCHANGED vix
                    ELSE vix' = [book EXCEPT !.rows = df] /\ UNCHANGED btc

load_btc_data ==
    /\ pc = "load_btc"
    /\ LoadWorkbook(btc, {"Date", "btc_price"}, "BTC", "load_vix")
    /\ UNCHANGED <<features, quality, cvars, kvars, mainvars, sumvars>>

load_vix_data ==
    /\ pc = "load_vix"
    /\ LoadWorkbook(vix, {"Date", "vix_level"}, "VIX", "features")
    /\ UNCHANGED <<features, quality, cvars, kvars, mainvars, sumvars>>

\* prepare_btc_vix_data after the two loads
prepare_btc_vix_data ==
    /\ pc = "features"
    /\ features' = [columns |-> FeatureColumns, rows |-> BuildFeatures(btc.rows, vix.rows)]
    /\ quality' = validate_data_quality(features'.columns, features'.rows)
    /\ pc' = "returned"
    /\ UNCHANGED <<error, btc, vix, cvars, kvars, mainvars, sumvars>>

\* validate_data_quality called on a table of its own
ValidateCall ==
    /\ pc = "validate"
    /\ quality' = validate_data_quality(features.columns, features.rows)
    /\ pc' = "validated"
    /\ UNCHANGED <<error, btc, vix, features, cvars, kvars, mainvars, sumvars>>

\* the most rows of a workbook or of a table handed to validate_data_quality
MaxRows == 3

SheetRows(values) == {[Date |-> t, value |-> x] : t \in 1..4, x \in values}

Workbook(cols, rows) == [exists |-> TRUE, columns |-> cols, rows |-> rows]

BtcBooks ==
    {Workbook({"Date", "btc_price"}, r) : r \in SeqsUpTo(SheetRows({NaN, 100, 200}), MaxRows)}

VixBooks ==
    {Workbook({"Date", "vix_level"}, r) : r \in SeqsUpTo(SheetRows({NaN, 20, -5}), MaxRows)}

CleanBtc == Workbook({"Date", "btc_price"}, [t \in 1..3 |-> [Date |-> t, value |-> 100 * t]])

CleanVix == Workbook({"Date", "vix_level"}, [t \in 1..3 |-> [Date |-> t + 1, value |-> 10 * t]])

BrokenBooks(good) ==
    {good, [good EXCEPT !.exists = FALSE], [good EXCEPT !.columns = {"Date"}]}

QualityRows ==
    {[Date |-> t, btc_price |-> 100, vix_level |-> x \div 10, Returns |-> r,
      RealizedVol_21d |-> NaN, VIX_decimal |-> x, VIX_change |-> NaN, VIX_lag1 |-> NaN] :
        t \in 1..2, x \in {-50, 200}, r \in {NaN, FP \div 2, 0 - (FP \div 2) - 1}}

InitLoader ==
    /\ error = ""
    /\ quality = <<>>
    /\ \/ /\ pc = "load_btc" /\ features = <<>>
          /\ \/ btc \in BtcBooks /\ vix = CleanVix
             \/ btc = CleanBtc /\ vix \in VixBooks
             \/ btc \in BrokenBooks(CleanBtc) /\ vix \in BrokenBooks(CleanVix)
       \/ /\ pc = "validate" /\ btc = <<>> /\ vix = <<>>
          /\ features \in
                {[columns |-> c, rows |-> r] :
                    c \in {FeatureColumns, FeatureColumns \ {"VIX_decimal"},
                           FeatureColumns \ {"Returns"}},
                    r \in SeqsUpTo(QualityRows, MaxRows)}
    /\ IdleCall /\ IdleKupiec /\ IdleMain /\ IdleSummary

NextLoader == load_btc_data \/ load_vix_data \/ prepare_btc_vix_data \/ ValidateCall

SpecLoader == InitLoader /\ [][NextLoader]_vars

-----------------------------------------------------------------------------
(* Comparison and ranking (evaluation_summary).  Deviations are in 1/1000   *)
(* of a violation, as ExpectedViolations is.                                *)

\* float a / b * 100, in 1/1000 of a percent
PctOf(a, b) ==
    IF b = 0 THEN (IF a = 0 THEN NaN ELSE IF a > 0 THEN Inf ELSE 0 - Inf)
    ELSE (100000 * a) \div b

\* the deviation taken as expected minus observed
Deviation_Reversed(row) == row.ExpectedViolations - 1000 * row.Violations

\* results["Violations"] - results["ExpectedViolations"]
Deviation(row) == 1000 * row.Violations - row.ExpectedViolations

\* compare_models: the copy with three columns more, cut to comparison_cols
compare_models(kupiec_results) ==
    [k \in 1..Len(kupiec_results) |->
        LET r   == kupiec_results[k]
            dev == Deviation(r)
        IN  [Model |-> r.Model, RollingWindow |-> r.RollingWindow,
             ConfidenceLevel |-> r.ConfidenceLevel, N |-> r.N,
             Violations |-> r.Violations,
             ExpectedViolations |-> r.ExpectedViolations,
             ViolationRate |-> r.ViolationRate,
             Deviation |-> dev,
             Deviation_pct |-> PctOf(dev, r.ExpectedViolations),
             AbsDeviation |-> IF dev < 0 THEN 0 - dev ELSE dev,
             p_value |-> r.p_value, Reject_5pct |-> r.Reject_5pct]]

\* the window labels in their sorted order
WindowLabels == <<"a", "b">>

LabelIndex(w) == CHOOSE k \in 1..Len(WindowLabels) : WindowLabels[k] = w

SameGroup(r, s) ==
    r.RollingWindow = s.RollingWindow /\ r.ConfidenceLevel = s.ConfidenceLevel

\* the rows of a group by descending deviation
MayPrecede_Descending(r, s) ==
    IF SameGroup(r, s) THEN r.AbsDeviation >= s.AbsDeviation
    ELSE \/ LabelIndex(r.RollingWindow) < LabelIndex(s.RollingWindow)
         \/ /\ r.RollingWindow = s.RollingWindow
            /\ r.ConfidenceLevel < s.ConfidenceLevel

\* groupby(["RollingWindow", "ConfidenceLevel"]) yields the groups in sorted key
\* order; group.sort_values("AbsDeviation") orders a group by ascending
\* AbsDeviation with the default sort, which is not stable: rows of equal
\* AbsDeviation come out in any order
MayPrecede(r, s) ==
    IF SameGroup(r, s) THEN r.AbsDeviation <= s.AbsDeviation
    ELSE \/ LabelIndex(r.RollingWindow) < LabelIndex(s.RollingWindow)
         \/ /\ r.RollingWindow = s.RollingWindow
            /\ r.ConfidenceLevel < s.ConfidenceLevel

\* rank_models_by_coverage: the tables it can return; none when there is no
\* group, pd.concat of an empty list raising ValueError
rank_models_by_coverage(comparison_df) ==
    LET n == Len(comparison_df)
        orders == {p \in Permutations(1..n) :
                      \A k \in 1..(n - 1) :
                          MayPrecede(comparison_df[p[k]], comparison_df[p[k + 1]])}
    IN  IF n = 0 THEN {}
        ELSE {[k \in 1..n |->
                 LET r == comparison_df[p[k]]
                 IN  [Model |-> r.Model, RollingWindow |-> r.RollingWindow,
                      ConfidenceLevel |-> r.ConfidenceLevel,
                      Violations |-> r.Violations,
                      ExpectedViolations |-> r.ExpectedViolations,
                      AbsDeviation |-> r.AbsDeviation,
                      Rank |-> 1 + Cardinality({j \in 1..(k - 1) :
                                  SameGroup(comparison_df[p[j]], r)})]] :
              p \in orders}

Compare ==
    /\ pc = "compare"
    /\ comparison' = compare_models(all_kupiec)
    /\ pc' = "rank"
    /\ UNCHANGED <<error, all_kupiec, rankings, cvars, kvars, mainvars, loadvars>>

RankModels ==
    /\ pc = "rank"
    /\ IF rank_models_by_coverage(comparison) = {}
       THEN /\ pc' = "raised" /\ error' = "ValueError: No objects to concatenate"
            /\ UNCHANGED rankings
       ELSE /\ rankings' \in rank_models_by_coverage(comparison)
            /\ pc' = "ranked" /\ UNCHANGED error
    /\ UNCHANGED <<all_kupiec, comparison, cvars, kvars, mainvars, loadvars>>

\* the most rows of a combined Kupiec table
MaxTable == 3

\* the row run_kupiec_test returns for x violations among n observations
SummaryRow(m, w, cl, n, x) ==
    LET st == KupiecStatistic(x, n, cl)
    IN  [Model |-> m, RollingWindow |-> w, ConfidenceLevel |-> cl, N |-> n,
         Violations |-> x, ExpectedViolations |-> n * (1000 - cl),
         ViolationRate |-> (FP * x) \div n,
         LR_uc |-> st.LR_uc, p_value |-> st.p_value,
         Reject_5pct |-> Reject(st.p_value)]

\* 20 observations: one violation expected at 95%, a fifth of one at 99%
SummaryRows ==
    {SummaryRow(m, "a", 950, 20, x) :
        m \in {"Historical", "MonteCarlo", "VIXRegression"}, x \in 0..2}
    \cup {SummaryRow(m, "b", 950, 20, x) :
              m \in {"Historical", "MonteCarlo"}, x \in 0..1}
    \cup {SummaryRow("Historical", "a", 990, 20, 0)}

InitSummary ==
    /\ pc = "compare" /\ error = ""
    /\ all_kupiec \in SeqsUpTo(SummaryRows, MaxTable)
    /\ comparison = <<>> /\ rankings = <<>>
    /\ IdleCall /\ IdleKupiec /\ IdleMain /\ IdleLoader

NextSummary == Compare \/ RankModels

SpecSummary == InitSummary /\ [][NextSummary]_vars

-----------------------------------------------------------------------------
(* Properties of the forecasting models, specification SpecModels *)

\* the configuration the validation of the entry points is meant to accept
BadWindow(k) ==
    rolling_windows[k].size <= 0 \/ rolling_windows[k].size > Len(data)

BadLevel(k) == ~(0 < confidence_levels[k] /\ confidence_levels[k] < 1000)

BadConfig ==
    \/ \E k \in 1..Len(rolling_windows) : BadWindow(k)
    \/ \E k \in 1..Len(confidence_levels) : BadLevel(k)

\* the forecast a table holds for timestamp t: empty when it has no row for t
ForecastAt(tbl, t) ==
    {tbl.rows[k].vals : k \in {j \in 1..Len(tbl.rows) : tbl.rows[j].date = t}}

\* the window [t - w, t) of input rows holds a missing return
WindowHasMissingReturn(t, w) ==
    \E j \in (t - w)..(t - 1) : IsNaN(data[j + 1].Returns)

\* C1: for every model and accepted window size w, the number of emitted
\* forecast rows plus the reported skip count equals len(data) - w, the rows of
\* data counted with those that hold missing values.
C1_SkipAccounting ==
    \A k \in 1..Len(results) :
        ~BadWindow(k) =>
            Len(results[k].table.rows) + skip_report[k]
                = Len(data) - rolling_windows[k].size

\* C2: the forecast of the VIX regression model for timestamp t (its presence
\* and its values) is the same for any two inputs that agree on the records at
\* index < t, also when a record at index >= t is altered to a missing value.
C2_NoLookAhead ==
    model = "VIXRegression" =>
        \A k \in 1..Len(results) :
            \A t \in 0..(Len(data) - 1) :
                \A j \in (t + 1)..Len(data) :
                    \A r \in VixRows :
                        LET alt == [data EXCEPT ![j] = r]
                            run == VIX_compute_var_for_window(
                                       alt, rolling_windows[k].size,
                                       confidence_levels)
                        IN  run.raised = "" =>
                                ForecastAt(run.table, t)
                                    = ForecastAt(results[k].table, t)

\* C22: in the Historical and Monte-Carlo models the forecast for position t
\* (its presence and its values) depends only on the returns at positions
\* [t - w, t): with the return at any position >= t or < t - w altered, or made
\* missing, the forecast for t is the same.
C22_WindowOnly ==
    (model \in {"Historical", "MonteCarlo"} /\ pc \in {"returned", "raised"}) =>
        \A k \in 1..Len(results) :
            \A j \in 0..(Len(data) - 1) :
                \A r \in ReturnRows :
                    LET w   == rolling_windows[k].size
                        alt == [data EXCEPT ![j + 1] = r]
                        run == IF model = "Historical"
                               THEN Hist_compute_var_for_window(
                                        alt, w, confidence_levels)
                               ELSE MC_compute_var_for_window(
                                        Column(alt, "Returns"), w,
                                        confidence_levels)
                    IN  run.raised = "" =>
                            \A t \in 0..(Len(data) - 1) :
                                (j >= t \/ j < t - w) =>
                                    ForecastAt(run.table, t)
                                        = ForecastAt(results[k].table, t)

C22_Witness ==
    /\ model = "Historical" /\ pc = "returned"
    /\ Len(data) = 4 /\ rolling_windows[1].size = 2
    /\ IsNaN(data[1].Returns) /\ IsNaN(data[4].Returns)
    /\ ForecastAt(results[1].table, 3) # {}

C25_WindowOfInputRows ==
    model = "VIXRegression" =>
        \A k \in 1..Len(results) :
            \A t \in rolling_windows[k].size..(Len(data) - 1) :
                (\E j \in (t - rolling_windows[k].size)..(t - 1) :
                    IsNaN(data[j + 1].VIX_decimal) \/ IsNaN(data[j + 1].RealizedVol_21d))
                => ForecastAt(results[k].table, t) = {}

\* C26: in both Monte-Carlo versions a window whose standard deviation is zero
\* or not finite while its mean is finite (one return, or w equal returns r)
\* is not skipped and gives VaR = -mu = -r for every confidence level.
C26_DegenerateWindow ==
    model \in {"MonteCarlo", "MonteCarloPkg"} =>
        \A k \in 1..Len(results) :
            LET w == rolling_windows[k].size
            IN  \A t \in w..(Len(data) - 1) :
                    (/\ w >= 1
                     /\ ~IsNaN(data[t].Returns)
                     /\ \A j \in (t - w)..(t - 1) : data[j + 1].Returns = data[t].Returns)
                    => ForecastAt(results[k].table, t)
                           = {[l \in results[k].table.columns |->
                                  0 - 1000 * data[t].Returns]}

C26_Witness ==
    /\ model = "MonteCarlo" /\ pc = "returned"
    /\ confidence_levels = <<950, 990>>
    /\ rolling_windows[1].size = 2
    /\ Len(data) >= 3 /\ data[1].Returns = 2 /\ data[2].Returns = 2
    /\ ForecastAt(results[1].table, 2) = {(95 :> -2000) @@ (99 :> -2000)}

\* the time points of the cleaned frame that a window of size w does not
\* skip: the regression on the w points before i predicts a positive
\* volatility at the VIX of point i - 1
UnskippedPoints(d, w) ==
    LET keep == DropNaPositions(d, 1)
        x    == [k \in 1..Len(keep) |-> d[keep[k] + 1].VIX_decimal]
        y    == [k \in 1..Len(keep) |-> d[keep[k] + 1].RealizedVol_21d]
    IN  {i \in w..(Len(keep) - 1) :
            ~PredictionInvalid(PredictNum(Slice(x, i - w, i), Slice(y, i - w, i), x[i]),
                               PredictDen(Slice(x, i - w, i)))}

\* a VIX-regression call whose data, windows and columns are valid and
\* whose confidence levels all lie in (0, 1), one of them without z-score
UntabulatedLevelCall ==
    /\ model = "VIXRegression"
    /\ Len(data) > 0
    /\ {"RealizedVol_21d", "VIX_decimal"} \subseteq columns
    /\ \A k \in 1..Len(rolling_windows) :
           0 < rolling_windows[k].size /\ rolling_windows[k].size <= Len(data)
    /\ \A k \in 1..Len(confidence_levels) :
           0 < confidence_levels[k] /\ confidence_levels[k] < 1000
    /\ \E k \in 1..Len(confidence_levels) :
           confidence_levels[k] \notin {950, 990}

\* C28: in calculate_vix_regression_var a confidence level in (0, 1) without
\* a pre-tabulated z-score passes the eager validation; the call fails (a
\* KeyError) only inside the rolling loop, in the first window that has a
\* point not skipped, and then returns nothing; a call in which every point
\* of every window is skipped, as with a window as long as the data, returns
\* normally with empty tables.
C28_UntabulatedLevelFailsInLoop ==
    UntabulatedLevelCall =>
        /\ pc = "raised" =>
               /\ error = "KeyError"
               /\ wi < Len(rolling_windows)
               /\ UnskippedPoints(data, rolling_windows[wi + 1].size) # {}
        /\ \A k \in 1..Len(results) :
               /\ UnskippedPoints(data, rolling_windows[k].size) = {}
               /\ results[k].table.rows = <<>>
        /\ pc = "windows" => Len(results) = wi
        /\ pc = "returned" =>
               /\ Len(results) = Len(rolling_windows)
               /\ \A k \in 1..Len(results) :
                      results[k].label = rolling_windows[k].label

\* a call with the levels 0.5 and 0.95 that skipped its first point and
\* failed at the second
C28_Witness ==
    /\ UntabulatedLevelCall
    /\ confidence_levels = <<500, 950>>
    /\ pc = "raised" /\ error = "KeyError"
    /\ rolling_windows[wi + 1].size = 1
    /\ 1 \notin UnskippedPoints(data, 1)
    /\ 2 \in UnskippedPoints(data, 1)

\* C30: every Historical VaR lies between the extremes of its window: for
\* every emitted row and every level in (0, 1),
\* -max(window) <= VaR <= -min(window), and a window of w identical returns r
\* gives VaR = -r.
C30_WithinWindowExtremes ==
    model = "Historical" =>
        \A k \in 1..Len(results) :
            LET w    == rolling_windows[k].size
                rows == results[k].table.rows
            IN  \A j \in 1..Len(rows) :
                    LET t      == rows[j].date
                        window == {data[p + 1].Returns : p \in (t - w)..(t - 1)}
                    IN  /\ t >= w /\ t < Len(data)
                        /\ \A r \in window : ~IsNaN(r)
                        /\ \A l \in DOMAIN rows[j].vals :
                               LET v == rows[j].vals[l]
                               IN  /\ \E r \in window : v >= 0 - 1000 * r
                                   /\ \E r \in window : v <= 0 - 1000 * r
                                   /\ \A r \in window :
                                          window = {r} => v = 0 - 1000 * r

\* a window holding -3 and 2 gives the interpolated VaR 0.5 at the level 0.5
\* and 2.75 at the level 0.95, and the next window, of 2 and 2, gives -2
C30_Witness ==
    /\ model = "Historical" /\ pc = "returned"
    /\ confidence_levels = <<500, 950>>
    /\ rolling_windows[1].size = 2
    /\ Len(data) = 4
    /\ data[1].Returns = -3 /\ data[2].Returns = 2 /\ data[3].Returns = 2
    /\ ForecastAt(results[1].table, 2) = {(50 :> 500) @@ (95 :> 2750)}
    /\ ForecastAt(results[1].table, 3) = {(50 :> -2000) @@ (95 :> -2000)}

\* C3: in every emitted forecast row of every model and window, the VaR of a
\* higher confidence level is not smaller than the VaR of a lower one
\* (VaR_99 >= VaR_95).
C3_MonotoneInConfidence ==
    ~BadConfig =>
        \A k \in 1..Len(results) :
            \A i \in 1..Len(results[k].table.rows) :
                \A a, b \in 1..Len(confidence_levels) :
                    confidence_levels[a] < confidence_levels[b] =>
                        Ge(results[k].table.rows[i].vals[VarLabel(confidence_levels[b])],
                           results[k].table.rows[i].vals[VarLabel(confidence_levels[a])])

\* C9: for each of the three entry points main.py runs, a non-positive window
\* size, a window size above the data length or a confidence level outside
\* (0,1) raises at invocation: the call never gets to its window loop and
\* returns nothing.
C9_EagerParameterErrors ==
    (model \in {"Historical", "MonteCarlo", "VIXRegression"}
        /\ BadConfig /\ pc # "call")
        => (pc = "raised" /\ wi = 0 /\ results = <<>>)

\* C10: in the Historical and Monte-Carlo models a point whose window holds a
\* missing return gets no output row, no emitted row holds a missing VaR, and
\* the points whose window is complete are still forecast.
C10_InvalidPointsSkipped ==
    (model \in {"Historical", "MonteCarlo", "MonteCarloPkg"} /\ ~BadConfig) =>
        \A k \in 1..Len(results) :
            LET w   == rolling_windows[k].size
                tbl == results[k].table
            IN  /\ \A t \in w..(Len(data) - 1) :
                       IF WindowHasMissingReturn(t, w)
                       THEN ForecastAt(tbl, t) = {}
                       ELSE ForecastAt(tbl, t) # {}
                /\ \A i \in 1..Len(tbl.rows) :
                       \A l \in tbl.columns : ~IsNaN(tbl.rows[i].vals[l])

\* C11: every VaR value any of the three models emits, for every window,
\* confidence level and timestamp, is a magnitude >= 0, also when all returns
\* of a window are positive.
C11_VaRNonNegative ==
    ~BadConfig =>
        \A k \in 1..Len(results) :
            \A i \in 1..Len(results[k].table.rows) :
                \A l \in results[k].table.columns :
                    Ge(results[k].table.rows[i].vals[l], 0)

\* the rows the VIX model keeps (0-based positions), and the regressors there
VixKept == DropNaPositions(data, 1)

VixX == [k \in 1..Len(VixKept) |-> data[VixKept[k] + 1].VIX_decimal]

VixY == [k \in 1..Len(VixKept) |-> data[VixKept[k] + 1].RealizedVol_21d]

\* the kept positions i (0-based, i >= w) whose predicted annualized
\* volatility, fitted on [i - w, i) and evaluated at the VIX of i - 1, is <= 0
NonPositivePredictions(w) ==
    {i \in w..(Len(VixKept) - 1) :
        PredictNum(Slice(VixX, i - w, i), Slice(VixY, i - w, i), VixX[i]) <= 0}

\* C12: in the volatility-regression model a point whose predicted annualized
\* volatility is non-finite or <= 0 is skipped and counted and gets no row, so
\* every VaR value in the output is strictly positive and finite.
C12_NonPositiveVolatilitySkipped ==
    model = "VIXRegression" =>
        \A k \in 1..Len(results) :
            LET w   == rolling_windows[k].size
                tbl == results[k].table
            IN  /\ skip_report[k] = Cardinality(NonPositivePredictions(w))
                /\ \A i \in NonPositivePredictions(w) :
                       ForecastAt(tbl, VixKept[i + 1]) = {}
                /\ \A i \in 1..Len(tbl.rows) :
                       \A l \in tbl.columns :
                           /\ tbl.rows[i].vals[l] # NaN
                           /\ 0 < tbl.rows[i].vals[l]
                           /\ tbl.rows[i].vals[l] < Inf

\* a window of the VIX model with a skipped point and an emitted row
C12_Witness ==
    /\ model = "VIXRegression"
    /\ \E k \in 1..Len(results) :
           /\ skip_report[k] > 0
           /\ results[k].table.rows # <<>>

\* the input has no missing return
NoMissingReturn == \A j \in 1..Len(data) : data[j].Returns # NaN

\* C13: with no missing data, n rows and a window size w with 0 < w <= n, the
\* Historical and Monte-Carlo models emit exactly n - w rows: one for each
\* position w, w+1, ..., n-1 and none before w, in increasing order, none twice.
C13_OneRowPerPosition ==
    (model \in {"Historical", "MonteCarlo", "MonteCarloPkg"}
        /\ NoMissingReturn /\ ~BadConfig)
    => \A k \in 1..Len(results) :
           LET w    == rolling_windows[k].size
               rows == results[k].table.rows
           IN  /\ Len(rows) = Len(data) - w
               /\ \A i \in 1..Len(rows) : rows[i].date = w + i - 1

\* a finished run of the model main.py runs, with a window that yields two
\* rows or more
C13_Witness ==
    /\ model = "MonteCarlo" /\ pc = "returned"
    /\ NoMissingReturn /\ ~BadConfig
    /\ \E k \in 1..Len(results) : Len(results[k].table.rows) >= 2

-----------------------------------------------------------------------------
(* Properties of the Kupiec test, specification SpecKupiec *)

\* the forecast table of the window labelled l
TableOf(l) ==
    (CHOOSE k \in 1..Len(results) : results[k].label = l)

\* the VaR the table holds in column col at date t, as a set (empty: none)
VaRsAt(tbl, col, t) ==
    {tbl.rows[k].vals[col] :
        k \in {j \in 1..Len(tbl.rows) : tbl.rows[j].date = t}}

\* the dates that have a return and a VaR, neither of them missing
AlignedDates(tbl, col) ==
    {t \in 0..(Len(data) - 1) :
        /\ data[t + 1].Returns # NaN
        /\ \E v \in VaRsAt(tbl, col, t) : v # NaN}

\* the aligned dates whose return is strictly below -VaR
ViolationDates(tbl, col) ==
    {t \in AlignedDates(tbl, col) :
        \E v \in VaRsAt(tbl, col, t) : 1000 * data[t + 1].Returns < 0 - v}

\* the aligned dates whose return is exactly -VaR
BoundaryDates(tbl, col) ==
    {t \in AlignedDates(tbl, col) :
        \E v \in VaRsAt(tbl, col, t) : 1000 * data[t + 1].Returns = 0 - v}

\* the (window, level) index pairs, and the place of each in window-major order
Combos == (1..Len(results)) \X (1..Len(confidence_levels))

Rank(p) ==
    Cardinality({q \in Combos :
                    q[1] < p[1] \/ (q[1] = p[1] /\ q[2] < p[2])})

Visited == {p \in Combos : Rank(p) < kpos}

IsolatedTest(p) ==
    run_kupiec_test(data, columns, results[p[1]].table,
                    confidence_levels[p[2]], model, results[p[1]].label)

RowsOf(p) ==
    {i \in 1..Len(kupiec_rows) :
        /\ kupiec_rows[i].RollingWindow = results[p[1]].label
        /\ kupiec_rows[i].ConfidenceLevel = confidence_levels[p[2]]}

LogsOf(p) ==
    {i \in 1..Len(kupiec_log) :
        /\ kupiec_log[i].window = results[p[1]].label
        /\ kupiec_log[i].cl = confidence_levels[p[2]]}

\* C4: in every result of run_kupiec_test, N is the number of dates that have
\* both a non-missing return and a non-missing VaR, Violations is the number of
\* those with return < -VaR (strictly), 0 <= Violations <= N,
\* ExpectedViolations = N * (1 - confidence level) and ViolationRate =
\* Violations / N lies in [0, 1].
C4_ViolationCounts ==
    \A i \in 1..Len(kupiec_rows) :
        LET row == kupiec_rows[i]
            tbl == results[TableOf(row.RollingWindow)].table
            col == row.ConfidenceLevel \div 10
            al  == AlignedDates(tbl, col)
            vi  == ViolationDates(tbl, col)
        IN  /\ row.N = Cardinality(al)
            /\ row.Violations = Cardinality(vi)
            /\ 0 <= row.Violations /\ row.Violations <= row.N
            /\ row.ExpectedViolations = row.N * (1000 - row.ConfidenceLevel)
            /\ row.ViolationRate = (FP * row.Violations) \div row.N
            /\ 0 <= row.ViolationRate /\ row.ViolationRate <= FP

\* a result with some but not all pairs in violation, one pair at the boundary
\* return = -VaR, and a date of the forecast table left out as unaligned
C4_Witness ==
    \E i \in 1..Len(kupiec_rows) :
        LET row == kupiec_rows[i]
            tbl == results[TableOf(row.RollingWindow)].table
            col == row.ConfidenceLevel \div 10
        IN  /\ 0 < row.Violations /\ row.Violations < row.N
            /\ BoundaryDates(tbl, col) # {}
            /\ Len(tbl.rows) > row.N

\* C5: whenever the violation count of a tested combination is 0 or equals the
\* observation count n >= 1, run_kupiec_test returns (a row is there, nothing
\* is raised) with LR_uc = +infinity, p_value = 0 and Reject_5pct = true.
C5_DegenerateCases ==
    \A p \in Visited :
        LET tbl == results[p[1]].table
            col == confidence_levels[p[2]] \div 10
            n   == Cardinality(AlignedDates(tbl, col))
            x   == Cardinality(ViolationDates(tbl, col))
        IN  ("Returns" \in columns /\ col \in tbl.columns
                /\ n >= 1 /\ (x = 0 \/ x = n))
            => /\ LogsOf(p) = {}
               /\ RowsOf(p) # {}
               /\ \A i \in RowsOf(p) :
                      /\ kupiec_rows[i].LR_uc = Inf
                      /\ kupiec_rows[i].p_value = 0
                      /\ kupiec_rows[i].Reject_5pct = TRUE

\* one result without any violation and one with every pair in violation
C5_Witness ==
    /\ \E i \in 1..Len(kupiec_rows) :
           /\ kupiec_rows[i].Violations = 0
           /\ kupiec_rows[i].N >= 2
           /\ kupiec_rows[i].LR_uc = Inf
    /\ \E i \in 1..Len(kupiec_rows) :
           /\ kupiec_rows[i].Violations = kupiec_rows[i].N
           /\ kupiec_rows[i].LR_uc = Inf

\* C6: in every result of run_kupiec_test the reject flag is true if and only
\* if p_value < 0.05, strictly: a p_value of exactly 0.05 does not reject.
C6_RejectIffBelowLevel ==
    /\ \A i \in 1..Len(kupiec_rows) :
           kupiec_rows[i].Reject_5pct = (kupiec_rows[i].p_value < 5000)
    /\ Reject(5000) = FALSE
    /\ Reject(4999) = TRUE

\* a rejecting and a non-rejecting result, both from the likelihood ratio
C6_Witness ==
    /\ \E i \in 1..Len(kupiec_rows) :
           /\ kupiec_rows[i].LR_uc # Inf
           /\ kupiec_rows[i].p_value > 0
           /\ kupiec_rows[i].Reject_5pct = TRUE
    /\ \E i \in 1..Len(kupiec_rows) :
           /\ kupiec_rows[i].LR_uc # Inf
           /\ kupiec_rows[i].Reject_5pct = FALSE

\* C7: run_kupiec_test raises and returns no result when no date has both a
\* non-missing return and a non-missing VaR, when the returns table has no
\* Returns column, or when the forecast table has no VaR column of the
\* requested level; no result has N = 0.
C7_RaisesWithoutObservations ==
    /\ \A p \in Visited :
           LET tbl == results[p[1]].table
               col == confidence_levels[p[2]] \div 10
           IN  ("Returns" \notin columns
                   \/ col \notin tbl.columns
                   \/ AlignedDates(tbl, col) = {})
               => (RowsOf(p) = {} /\ LogsOf(p) # {})
    /\ \A i \in 1..Len(kupiec_rows) : kupiec_rows[i].N >= 1

\* a batch in which one test failed for its VaR column, another for having no
\* aligned observation, and a third returned a result
C7_Witness ==
    /\ \E i \in 1..Len(kupiec_log) :
           kupiec_log[i].what = "ValueError: no VaR column"
    /\ \E i \in 1..Len(kupiec_log) :
           /\ kupiec_log[i].what = "ValueError: no valid data"
           /\ results[TableOf(kupiec_log[i].window)].table.rows # <<>>
    /\ kupiec_rows # <<>>

\* C8: run_kupiec_tests_for_model visits the (window, confidence level)
\* combinations in window-major order, never propagates a failure, holds one
\* row for each visited combination whose test succeeds (the row that test
\* returns on its own, in visiting order) and none for a failed one, and at
\* its return has visited every combination.
C8_BatchFailureIsolation ==
    /\ pc \in {"kupiec", "kupiec_returned"} /\ error = ""
    /\ pc = "kupiec_returned" => Visited = Combos
    /\ Len(kupiec_rows) + Len(kupiec_log) = Cardinality(Visited)
    /\ \A p \in Visited :
           LET res    == IsolatedTest(p)
               before == {q \in Visited : Rank(q) < Rank(p)}
               okb    == {q \in before : IsolatedTest(q).kind = "ok"}
           IN  IF res.kind = "ok"
               THEN /\ kupiec_rows[Cardinality(okb) + 1] = res.row
                    /\ LogsOf(p) = {}
               ELSE /\ RowsOf(p) = {}
                    /\ LET e == kupiec_log[Cardinality(before \ okb) + 1]
                       IN  /\ e.window = results[p[1]].label
                           /\ e.cl = confidence_levels[p[2]]

\* a finished batch over two windows with a failed combination between two
\* successful ones
C8_Witness ==
    /\ pc = "kupiec_returned"
    /\ Len(results) = 2
    /\ \E p, q, r \in Combos :
           /\ Rank(p) < Rank(q) /\ Rank(q) < Rank(r)
           /\ RowsOf(p) # {} /\ LogsOf(q) # {} /\ RowsOf(r) # {}

-----------------------------------------------------------------------------
(* Properties of main, specification SpecMain *)

StagesDone == {completed[k] : k \in 1..Len(completed)}

\* C14: main runs its stages in the fixed order (feature preparation, three
\* model forecasts, three Kupiec batches, combine, compare, rank, save,
\* summary); it returns 0 only after all of them, or it stops at the first
\* stage that raises, runs no stage after it and returns 1; result files exist
\* only after the three forecasts and the three Kupiec batches have completed.
C14_CompleteOrAbortAtFirstError ==
    /\ completed = SubSeq(MainStages, 1, Len(completed))
    /\ StagesDone \cap raising = {}
    /\ exit_code \in {-1, 0, 1}
    /\ exit_code = 0 => completed = MainStages /\ error = ""
    /\ error # "" => /\ Len(completed) < Len(MainStages)
                     /\ error = MainStages[Len(completed) + 1]
                     /\ error \in raising
    /\ exit_code = 1 => error # ""
    /\ pc = "exited" => exit_code # -1
    /\ written # <<>> => {MainStages[k] : k \in 2..7} \subseteq StagesDone

C14_Witness ==
    /\ pc = "exited" /\ exit_code = 1
    /\ error = "run_kupiec_tests_for_model MonteCarlo"
    /\ Cardinality(raising) = 2
    /\ written = <<>>

-----------------------------------------------------------------------------
(* Properties of the feature pipeline, specification SpecLoader *)

\* C15: prepare_btc_vix_data aborts with an error when nothing is left after
\* the merge and the cleaning steps; a call that returns, returns a Feature
\* table with at least one row.
C15_NeverReturnsEmpty ==
    pc = "returned" => features.rows # <<>>

\* C16: in the table prepare_btc_vix_data returns, VIX_lag1 of the first row
\* is missing and VIX_lag1 of every later row t equals VIX_decimal of row
\* t - 1, the row just before it.
C16_LagIsOnePeriod ==
    pc = "returned" =>
        \A t \in 1..Len(features.rows) :
            features.rows[t].VIX_lag1 =
                IF t = 1 THEN NaN ELSE features.rows[t - 1].VIX_decimal

C16_Witness ==
    /\ pc = "returned"
    /\ Len(features.rows) >= 2
    /\ features.rows[1].VIX_decimal # features.rows[2].VIX_decimal
    /\ features.rows[2].VIX_lag1 = features.rows[1].VIX_decimal

\* the timestamps a workbook holds with a value that is not missing
ValidDates(book) ==
    {book.rows[k].Date : k \in {j \in 1..Len(book.rows) : ~IsNaN(book.rows[j].value)}}

\* no timestamp twice in a workbook
UniqueDates(book) ==
    \A i, j \in 1..Len(book.rows) : book.rows[i].Date = book.rows[j].Date => i = j

\* C24 as stated: every timestamp of the table prepare_btc_vix_data returns
\* is in both raw inputs with a price and an index value that are not missing,
\* the earliest such common timestamp is not in the table, and every other
\* one is.
C24_InnerJoinNoImputation ==
    pc = "returned" =>
        LET common == ValidDates(btc) \cap ValidDates(vix)
            out    == {features.rows[t].Date : t \in 1..Len(features.rows)}
        IN  /\ out \subseteq common
            /\ \A d \in common :
                   (d \in out) <=> (\E e \in common : e < d)

\* C24, amended: the same for raw inputs in which no timestamp occurs twice
\* (prices positive): the table holds the common timestamps with a price and
\* an index value, all but the earliest, and no other timestamp.
C24_InnerJoinUniqueTimestamps ==
    (pc = "returned" /\ UniqueDates(btc) /\ UniqueDates(vix)) =>
        LET common == ValidDates(btc) \cap ValidDates(vix)
            out    == {features.rows[t].Date : t \in 1..Len(features.rows)}
        IN  /\ out \subseteq common
            /\ \A d \in common :
                   (d \in out) <=> (\E e \in common : e < d)
            /\ Len(features.rows) = Cardinality(out)

C24_Witness ==
    /\ pc = "returned" /\ UniqueDates(btc) /\ UniqueDates(vix)
    /\ Len(features.rows) = 1
    /\ Cardinality(ValidDates(btc) \cap ValidDates(vix)) = 2
    /\ \E k \in 1..Len(btc.rows) :
           IsNaN(btc.rows[k].value) /\ btc.rows[k].Date \in ValidDates(vix)

\* C17: validate_data_quality never raises and leaves the table as it was; it
\* returns the number of rows whose timestamp occurred in an earlier row, the
\* number of negative VIX_decimal values and the number of returns with
\* |return| > 0.5 (strictly), and total_issues is the sum of the three;
\* prepare_btc_vix_data returns the rows it built whether or not issues were
\* found.
C17_QualityChecksNonFatal ==
    /\ [][pc = "validate" => pc' = "validated" /\ features' = features]_vars
    /\ [](pc \in {"validated", "returned"} =>
        LET rows == features.rows
            dup  == {t \in 1..Len(rows) : \E s \in 1..(t - 1) : rows[s].Date = rows[t].Date}
            neg  == {t \in 1..Len(rows) :
                        /\ "VIX_decimal" \in features.columns
                        /\ rows[t].VIX_decimal # NaN /\ rows[t].VIX_decimal < 0}
            ext  == {t \in 1..Len(rows) :
                        /\ "Returns" \in features.columns
                        /\ rows[t].Returns # NaN
                        /\ (2 * rows[t].Returns > FP \/ 2 * rows[t].Returns < 0 - FP)}
        IN  /\ error = ""
            /\ quality.duplicates = Cardinality(dup)
            /\ quality.negative_vix = Cardinality(neg)
            /\ quality.extreme_returns = Cardinality(ext)
            /\ quality.total_issues
                   = Cardinality(dup) + Cardinality(neg) + Cardinality(ext)
            /\ pc = "returned" => rows = BuildFeatures(btc.rows, vix.rows))

C17_Witness ==
    /\ pc = "validated"
    /\ quality.duplicates >= 1 /\ quality.negative_vix >= 1
    /\ quality.extreme_returns = 1
    /\ \E t \in 1..Len(features.rows) : 2 * features.rows[t].Returns = FP

-----------------------------------------------------------------------------
(* Properties of the comparison and the ranking, specification SpecSummary *)

\* a ranking row without its rank, a comparison row cut to the same columns
Ranked(r) ==
    [Model |-> r.Model, RollingWindow |-> r.RollingWindow,
     ConfidenceLevel |-> r.ConfidenceLevel, Violations |-> r.Violations,
     ExpectedViolations |-> r.ExpectedViolations, AbsDeviation |-> r.AbsDeviation]

Occurrences(tbl, v) == Cardinality({k \in 1..Len(tbl) : Ranked(tbl[k]) = v})

\* C18: rank_models_by_coverage ranks each (window, confidence level) group
\* on its own: the k rows of a group get the ranks 1..k, each once, a row with
\* a smaller absolute deviation never a larger rank than a row of its group
\* with a larger one, and every input row appears exactly once in the ranking.
C18_RanksWithinGroups ==
    pc = "ranked" =>
        /\ Len(rankings) = Len(comparison)
        /\ \A k \in 1..Len(comparison) :
               Occurrences(rankings, Ranked(comparison[k]))
                   = Occurrences(comparison, Ranked(comparison[k]))
        /\ \A i \in 1..Len(rankings) :
               LET group == {j \in 1..Len(rankings) : SameGroup(rankings[j], rankings[i])}
               IN  /\ {rankings[j].Rank : j \in group} = 1..Cardinality(group)
                   /\ \A j \in group :
                          /\ rankings[i].AbsDeviation < rankings[j].AbsDeviation
                                 => rankings[i].Rank < rankings[j].Rank
                          /\ (rankings[i].Rank = rankings[j].Rank) => i = j

C18_Witness ==
    /\ pc = "ranked"
    /\ Len(rankings) = 3
    /\ \E i, j \in 1..3 :
           /\ i < j /\ SameGroup(comparison[i], comparison[j])
           /\ comparison[i].AbsDeviation > comparison[j].AbsDeviation
    /\ \E i, j \in 1..3 : ~SameGroup(comparison[i], comparison[j])

\* the rank given to the row of the ranking that is comparison row k
RankGiven(k) ==
    (CHOOSE r \in {rankings[j] : j \in 1..Len(rankings)} :
        Ranked(r) = Ranked(comparison[k])).Rank

\* C19: of two rows of the same group with equal absolute deviation, the one
\* that comes first in the input table gets the smaller rank.
C19_TiesByInputOrder ==
    (pc = "ranked" /\ \A i, j \in 1..Len(comparison) :
                          i # j => Ranked(comparison[i]) # Ranked(comparison[j]))
    => \A i, j \in 1..Len(comparison) :
           (/\ i < j /\ SameGroup(comparison[i], comparison[j])
            /\ comparison[i].AbsDeviation = comparison[j].AbsDeviation)
           => RankGiven(i) < RankGiven(j)

\* C20: compare_models returns one row per input row, in input order, with
\* Deviation = Violations - ExpectedViolations and AbsDeviation = |Deviation|
\* (never negative, zero exactly when Violations equals ExpectedViolations),
\* and its input table is left as it was, without the new columns.
C20_CompareRowByRow ==
    /\ [][pc = "compare" => all_kupiec' = all_kupiec]_vars
    /\ [](pc \in {"rank", "ranked", "raised"} =>
           /\ Len(comparison) = Len(all_kupiec)
           /\ \A k \in 1..Len(all_kupiec) :
                  LET in == all_kupiec[k]  out == comparison[k]
                  IN  /\ out.Model = in.Model
                      /\ out.RollingWindow = in.RollingWindow
                      /\ out.ConfidenceLevel = in.ConfidenceLevel
                      /\ out.Violations = in.Violations
                      /\ out.ExpectedViolations = in.ExpectedViolations
                      /\ out.Deviation + in.ExpectedViolations = 1000 * in.Violations
                      /\ out.AbsDeviation \in {out.Deviation, 0 - out.Deviation}
                      /\ out.AbsDeviation >= 0
                      /\ (out.AbsDeviation = 0) <=>
                             (1000 * in.Violations = in.ExpectedViolations)
                      /\ {"Deviation", "Deviation_pct", "AbsDeviation"}
                             \cap DOMAIN in = {})

C20_Witness ==
    /\ pc = "rank"
    /\ Len(comparison) = 3
    /\ comparison[1].Deviation < 0 /\ comparison[2].Deviation = 0
    /\ comparison[3].Deviation > 0
    /\ comparison[1].Model # comparison[2].Model

-----------------------------------------------------------------------------
(* Properties of the models run on one table, specification SpecShared *)

\* the table a model call returns for window k when it is given table d
WindowRun(m, d, k) ==
    LET w == rolling_windows[k].size
    IN  IF m = "Historical" THEN Hist_compute_var_for_window(d, w, confidence_levels)
        ELSE IF m = "MonteCarlo"
             THEN MC_compute_var_for_window(Column(d, "Returns"), w, confidence_levels)
        ELSE VIX_compute_var_for_window(d, w, confidence_levels)

-----------------------------------------------------------------------------
(* Properties of the Kupiec statistic, specification SpecStatistic *)

\* C27: in every result of run_kupiec_test with 0 < x < n, LR_uc is the
\* likelihood-ratio statistic -2 (logL0 - logL1) for p0 = 1 - c against x/n and
\* p_value the upper tail of chi-squared(1) at it, LR_uc >= 0 and
\* 0 <= p_value <= 1, and LR_uc = 0 with p_value = 1 when x/n equals p0.
C27_StatisticRange ==
    \A i \in 1..Len(kupiec_rows) :
        LET r  == kupiec_rows[i]
            x  == r.Violations
            n  == r.N
            cl == r.ConfidenceLevel
        IN  (0 < x /\ x < n) =>
                /\ r.LR_uc = (0 - 2) * (((n - x) * Ln(cl, 1000) + x * Ln(1000 - cl, 1000))
                                        - ((n - x) * Ln(n - x, n) + x * Ln(x, n)))
                /\ r.p_value = FP - Chi2Cdf(r.LR_uc)
                /\ r.LR_uc >= 0
                /\ 0 <= r.p_value /\ r.p_value <= FP
                /\ (1000 * x = n * (1000 - cl)) => (r.LR_uc = 0 /\ r.p_value = FP)

-----------------------------------------------------------------------------
(* Properties of a model call and its Kupiec tests, specification SpecChain *)

\* the configured windows as long as the data
FullLength == {k \in 1..Len(rolling_windows) : rolling_windows[k].size = Len(data)}

\* the rows run_kupiec_tests_for_model returns for the forecasts of the
\* windows wins alone
KupiecRowsFor(wins) ==
    LET n == Len(wins) * Len(confidence_levels)
        rows[k \in 0..n] ==
            IF k = 0 THEN <<>>
            ELSE LET at  == KupiecCombo(k - 1, Len(wins), Len(confidence_levels))
                     w   == wins[at.w]
                     cl  == confidence_levels[at.c]
                     tbl == Hist_compute_var_for_window(data, w.size,
                                                        confidence_levels).table
                     res == run_kupiec_test(data, columns, tbl, cl, model, w.label)
                 IN  IF res.kind = "ok" THEN Append(rows[k - 1], res.row)
                     ELSE rows[k - 1]
    IN  rows[n]

\* C29: a window as long as the data passes the validation (only a longer
\* one is rejected) and yields an empty forecast table;
\* run_kupiec_tests_for_model then fails for each confidence level of that
\* window with "no valid data", logs the failure and returns no row for it,
\* and the rows of the other windows are those of a run in which that window
\* was not configured.
C29_FullLengthWindowIsolated ==
    /\ pc = "raised" =>
           /\ error = "ValueError"
           /\ \/ Len(data) = 0
              \/ \E k \in 1..Len(rolling_windows) :
                     rolling_windows[k].size > Len(data)
    /\ \A k \in FullLength :
           k <= Len(results) =>
               results[k].table = [columns |-> Labels(confidence_levels),
                                   rows |-> <<>>]
    /\ pc = "kupiec_returned" =>
           /\ \A k \in FullLength : \A c \in 1..Len(confidence_levels) :
                  /\ Cardinality(LogsOf(<<k, c>>)) = 1
                  /\ \A i \in LogsOf(<<k, c>>) :
                         kupiec_log[i].what = "ValueError: no valid data"
                  /\ RowsOf(<<k, c>>) = {}
           /\ kupiec_rows =
                  KupiecRowsFor(SelectSeq(rolling_windows,
                                          LAMBDA w : w.size # Len(data)))

\* a finished run with the window a as long as the four rows of the table
\* and the window b of two rows: two failures logged, two rows returned
C29_Witness ==
    /\ pc = "kupiec_returned"
    /\ Len(data) = 4
    /\ rolling_windows = <<Window("a", 4), Window("b", 2)>>
    /\ confidence_levels = <<950, 990>>
    /\ Len(kupiec_log) = 2 /\ Len(kupiec_rows) = 2
    /\ kupiec_rows[1].RollingWindow = "b" /\ kupiec_rows[1].Violations = 1

====
